---- MODULE Spec2Model ----
(***************************************************************************)
(* EBU R128 loudness meter of DynamikSteuerung (src/native/src): the meter *)
(* state Ebur128State, its operations (new, add_frames_float,              *)
(* loudness_global, loudness_segment, start_new_segment) and the gain      *)
(* derivation AudioLoudnessInfo::new.                                      *)
(*                                                                         *)
(* Numbers.  The code computes in f64/f32; TLC computes in 32-bit          *)
(* integers.  Reals are modelled in fixed point:                           *)
(*   - a sample (f32 input, f64 filter memory and ring-buffer slot) is an  *)
(*     integer number of 1e-4 steps (1.0 = 10000);                         *)
(*   - a filter coefficient is an integer number of 1/COEF_SCALE steps;    *)
(*   - an energy (mean square) is an integer number of 1e-10 steps: the    *)
(*     square of a sample is SQ_SCALE * x * x;                             *)
(*   - a loudness is an integer number of milli-LUFS.                      *)
(*   - in the gain derivation a loudness is an integer number of 1e-7 dB   *)
(*     and the f32 gain is its bit pattern.                                *)
(* Every product is rounded down to the grid, as a float product is        *)
(* rounded to the nearest float.  Arrays are functions on 0..n-1, so the   *)
(* indices are those of the source; Option values are sequences of length  *)
(* 0 (None) or 1 (Some).                                                   *)
(***************************************************************************)
EXTENDS Integers, Sequences, FiniteSets, TLC

\* ------------------------------------------------------------------ bounds
\* MaxFrames bounds the frames one run asks a meter to take.  A call of
\* add_frames_float asks for at most MaxChunk frames, and a run calls
\* start_new_segment at most MaxResets times.  The run that passes the
\* short-term window takes up to LongFrames frames; the runs that pass the
\* end of a three-second ring buffer more than once take up to
\* CadenceFrames frames.
MaxFrames == 4
MaxChunk == MaxFrames \div 2
MaxResets == MaxFrames \div 4
LongFrames == MaxFrames * 5
CadenceFrames == MaxFrames * 9

\* ------------------------------------------------------- lib.rs constants
EBUR128_UNUSED == 0
EBUR128_LEFT == 1
EBUR128_RIGHT == 2
EBUR128_CENTER == 3
EBUR128_LEFT_SURROUND == 4
EBUR128_RIGHT_SURROUND == 5

EBUR128_MODE_I == 5
EBUR128_MODE_S == 3
EBUR128_MODE_M == 1
EBUR128_MODE_LRA == 11

\* ------------------------------------------------------ fixed-point grids
COEF_SCALE == 100
SQ_SCALE == 100

\* Option<T>
None == <<>>
Some(x) == <<x>>
IsSome(o) == Len(o) = 1
Unwrap(o) == o[1]

\* Length of a 0-based array, and the slice &a[from..]
Len0(arr) == Cardinality(DOMAIN arr)
SliceFrom(arr, from) == [i \in 0..(Len0(arr) - from - 1) |-> arr[i + from]]

\* The usize operator & (mode & EBUR128_MODE_x)
RECURSIVE BitAnd(_, _)
BitAnd(x, y) ==
    IF x = 0 \/ y = 0 THEN 0
    ELSE (x % 2) * (y % 2) + 2 * BitAnd(x \div 2, y \div 2)

\* (mode & m) == m
ModeHas(mode, m) == BitAnd(mode, m) = m

\* A product of a coefficient and a sample, on the sample grid.
MulCoef(k, x) == (k * x) \div COEF_SCALE

\* init_channel_map: the role of channel index i
ChannelRole(i) ==
    CASE i = 0 -> EBUR128_LEFT
      [] i = 1 -> EBUR128_RIGHT
      [] i = 2 -> EBUR128_CENTER
      [] i = 4 -> EBUR128_LEFT_SURROUND
      [] i = 5 -> EBUR128_RIGHT_SURROUND
      [] OTHER -> EBUR128_UNUSED

init_channel_map(channels) == [i \in 0..(channels - 1) |-> ChannelRole(i)]

\* init_filter: the combined 4th-order coefficients a[0..4], b[0..4] the
\* code derives from the sample rate (tan of PI*f0/sample_rate, bilinear
\* transform), evaluated for the sample rates of the model and rounded to
\* 1/COEF_SCALE:
\*   rate 4 : a = 1  4.4211  7.2950  5.3241  1.4503   b = 1.0074 -0.0719 -1.9403   0.0670 0.9379
\*   rate 6 : a = 1  1.2793  0.7596  0.2318  0.0279   b = 1.1936 -1.9880  0.6239  -0.0581 0.2286
\*   rate 12: a = 1 -1.0971  0.5907 -0.1464  0.0130   b = 1.3727 -3.9319  4.1668  -2.0290 0.4213
\*   rate 11: a = 1 -1.1143 -1.4962  1.9042  1.5016   b = 1.7141 -7.9246 14.0365 -11.1557 3.3297
FilterTable(sample_rate) ==
    CASE sample_rate = 4  -> [a |-> <<100, 442, 729, 532, 145>>, b |-> <<101, -7, -194, 7, 94>>]
      [] sample_rate = 6  -> [a |-> <<100, 128, 76, 23, 3>>,     b |-> <<119, -199, 62, -6, 23>>]
      [] sample_rate = 12 -> [a |-> <<100, -110, 59, -15, 1>>,   b |-> <<137, -393, 417, -203, 42>>]
      [] OTHER            -> [a |-> <<100, -111, -150, 190, 150>>, b |-> <<171, -792, 1404, -1116, 333>>]

init_filter(sample_rate) ==
    [a |-> [i \in 0..4 |-> FilterTable(sample_rate).a[i + 1]],
     b |-> [i \in 0..4 |-> FilterTable(sample_rate).b[i + 1]]]

\* The value of `state` when Ebur128State::new returned Err.
NoState == [mode |-> 0]

\* ModeValid with `!= 0` for `== constant`: any common bit would do.
ModeValid_AnyBit(mode) ==
    \/ BitAnd(mode, EBUR128_MODE_I) # 0
    \/ BitAnd(mode, EBUR128_MODE_S) # 0
    \/ BitAnd(mode, EBUR128_MODE_M) # 0

\* The mode test of Ebur128State::new (lib.rs 56-58)
ModeValid(mode) ==
    \/ BitAnd(mode, EBUR128_MODE_I) = EBUR128_MODE_I
    \/ BitAnd(mode, EBUR128_MODE_S) = EBUR128_MODE_S
    \/ BitAnd(mode, EBUR128_MODE_M) = EBUR128_MODE_M

\* Ebur128State::new (lib.rs 55-95)
New(channels, sample_rate, mode) ==
    IF ~ModeValid(mode)
    THEN [status |-> "err", state |-> NoState]
    ELSE LET audio_data_frames ==
                 IF ModeHas(mode, EBUR128_MODE_S) THEN sample_rate * 3
                 ELSE IF ModeHas(mode, EBUR128_MODE_M) THEN (sample_rate \div 5) * 2
                 ELSE (sample_rate \div 5) * 2
             coef == init_filter(sample_rate)
         IN  [status |-> "ok",
              state |->
                [mode |-> mode,
                 sample_rate |-> sample_rate,
                 channels |-> channels,
                 channel_map |-> init_channel_map(channels),
                 a |-> coef.a,
                 b |-> coef.b,
                 v |-> [c \in 0..(channels - 1) |-> [k \in 0..4 |-> 0]],
                 audio_data |-> [j \in 0..(audio_data_frames * channels - 1) |-> 0],
                 audio_data_frames |-> audio_data_frames,
                 audio_data_index |-> 0,
                 needed_frames |-> (sample_rate \div 5) * 2,
                 block_list |-> <<>>,
                 short_term_block_list |-> <<>>,
                 block_counter |-> 0,
                 short_term_frame_counter |-> 0]]

\* One sample through the IIR filter (processing.rs 24-44): the new filter
\* memory of the channel and the weighted output.
FilterStep(a, b, vc, input) ==
    LET v0 == input - MulCoef(a[1], vc[1]) - MulCoef(a[2], vc[2])
                    - MulCoef(a[3], vc[3]) - MulCoef(a[4], vc[4])
        output == MulCoef(b[0], v0) + MulCoef(b[1], vc[1]) + MulCoef(b[2], vc[2])
                  + MulCoef(b[3], vc[3]) + MulCoef(b[4], vc[4])
    IN  [v |-> [k \in 0..4 |-> CASE k = 0 -> v0
                                 [] k = 1 -> v0
                                 [] k = 2 -> vc[1]
                                 [] k = 3 -> vc[2]
                                 [] k = 4 -> vc[3]],
         output |-> output]

\* The loop `for i in 0..frames` of one channel c (processing.rs 23-45):
\* the channel's final filter memory and its outputs, outs[i + 1] for frame i.
RECURSIVE FilterChannel(_, _, _, _, _, _, _)
FilterChannel(s, src, c, i, frames, vc, outs) ==
    IF i >= frames THEN [v |-> vc, outs |-> outs]
    ELSE LET r == FilterStep(s.a, s.b, vc, src[i * s.channels + c])
         IN  FilterChannel(s, src, c, i + 1, frames, r.v, Append(outs, r.output))

\* Whether filter_float writes the slot at offset w from audio_data_index:
\* w = i * channels + c for a frame i < frames and a channel c in use.
FilterWrites(s, frames, w) ==
    /\ w >= 0
    /\ w < frames * s.channels
    /\ s.channel_map[w % s.channels] # EBUR128_UNUSED

\* filter_float without the `frames == 0` test: no frames is no error.
filter_float_AcceptsNoFrames(s, src, frames) ==
    IF Len0(src) < frames * s.channels
    THEN [status |-> "err", state |-> s]
    ELSE IF frames = 0
    THEN [status |-> "ok", state |-> s]
    ELSE IF s.audio_data_index > Len0(s.audio_data) \/
            \E w \in 0..(frames * s.channels - 1) :
               /\ FilterWrites(s, frames, w)
               /\ w >= Len0(s.audio_data) - s.audio_data_index
    THEN [status |-> "panic", state |-> s]
    ELSE LET run == [c \in 0..(s.channels - 1) |->
                        IF s.channel_map[c] = EBUR128_UNUSED
                        THEN [v |-> s.v[c], outs |-> <<>>]
                        ELSE FilterChannel(s, src, c, 0, frames, s.v[c], <<>>)]
             rel(j) == j - s.audio_data_index
         IN  [status |-> "ok",
              state |->
                [s EXCEPT
                   !.v = [c \in 0..(s.channels - 1) |-> run[c].v],
                   !.audio_data =
                       [j \in DOMAIN s.audio_data |->
                           IF FilterWrites(s, frames, rel(j))
                           THEN run[rel(j) % s.channels].outs[(rel(j) \div s.channels) + 1]
                           ELSE s.audio_data[j]]]]

\* filter_float without `if channel_map[c] == EBUR128_UNUSED { continue }`.
filter_float_NoSkip(s, src, frames) ==
    IF frames = 0 \/ Len0(src) < frames * s.channels
    THEN [status |-> "err", state |-> s]
    ELSE IF s.audio_data_index + frames * s.channels > Len0(s.audio_data)
    THEN [status |-> "panic", state |-> s]
    ELSE LET run == [c \in 0..(s.channels - 1) |->
                        FilterChannel(s, src, c, 0, frames, s.v[c], <<>>)]
             rel(j) == j - s.audio_data_index
         IN  [status |-> "ok",
              state |->
                [s EXCEPT
                   !.v = [c \in 0..(s.channels - 1) |-> run[c].v],
                   !.audio_data =
                       [j \in DOMAIN s.audio_data |->
                           IF rel(j) >= 0 /\ rel(j) < frames * s.channels
                           THEN run[rel(j) % s.channels].outs[(rel(j) \div s.channels) + 1]
                           ELSE s.audio_data[j]]]]

\* filter_float (processing.rs 11-48).  status "panic" is an index out of
\* bounds: the slice &mut audio_data[audio_data_index..] or a write past it.
filter_float(s, src, frames) ==
    IF frames = 0 \/ Len0(src) < frames * s.channels
    THEN [status |-> "err", state |-> s]
    ELSE IF s.audio_data_index > Len0(s.audio_data) \/
            \E w \in 0..(frames * s.channels - 1) :
               /\ FilterWrites(s, frames, w)
               /\ w >= Len0(s.audio_data) - s.audio_data_index
    THEN [status |-> "panic", state |-> s]
    ELSE LET run == [c \in 0..(s.channels - 1) |->
                        IF s.channel_map[c] = EBUR128_UNUSED
                        THEN [v |-> s.v[c], outs |-> <<>>]
                        ELSE FilterChannel(s, src, c, 0, frames, s.v[c], <<>>)]
             rel(j) == j - s.audio_data_index
         IN  [status |-> "ok",
              state |->
                [s EXCEPT
                   !.v = [c \in 0..(s.channels - 1) |-> run[c].v],
                   !.audio_data =
                       [j \in DOMAIN s.audio_data |->
                           IF FilterWrites(s, frames, rel(j))
                           THEN run[rel(j) % s.channels].outs[(rel(j) \div s.channels) + 1]
                           ELSE s.audio_data[j]]]]

\* ABS_THRESHOLD_ENERGY = 4.90907876152606E-71 (processing.rs 8) lies far
\* below one energy step (1e-10): on the grid `sum >= ABS_THRESHOLD_ENERGY`
\* is `sum >= 1`, the smallest positive energy.
ABS_THRESHOLD_ENERGY == 1

\* MINUS_EIGHT_DECIBELS = 0.15848931924611134 (processing.rs 6), as
\* MINUS_EIGHT_NUM / MINUS_EIGHT_DEN.
MINUS_EIGHT_NUM == 15849
MINUS_EIGHT_DEN == 100000

\* The channel weight 1.41 (processing.rs 136), as SURROUND_NUM / SURROUND_DEN.
SURROUND_NUM == 141
SURROUND_DEN == 100

\* floor(x * num / den) for x >= 0 without leaving 32 bits.
MulFrac(x, num, den) == (x \div den) * num + ((x % den) * num) \div den

\* sample * sample, on the energy grid.
Sq(x) == SQ_SCALE * x * x

\* Sum of the squares of the slice audio_data[lo..hi] (raw slot indices).
RECURSIVE SumSqSlots(_, _, _)
SumSqSlots(data, lo, hi) ==
    IF lo >= hi THEN 0 ELSE Sq(data[lo]) + SumSqSlots(data, lo + 1, hi)

\* Sum of the squares of audio_data[i * channels + c] for i in lo..hi-1.
RECURSIVE SumSqFrames(_, _, _, _, _)
SumSqFrames(data, channels, c, lo, hi) ==
    IF lo >= hi THEN 0
    ELSE Sq(data[lo * channels + c]) + SumSqFrames(data, channels, c, lo + 1, hi)

\* ChannelSum without `channel_sum *= 1.41` for the surround channels.
ChannelSum_NoWeight(s, c, frames_per_block) ==
    IF s.audio_data_index < frames_per_block * s.channels
    THEN SumSqSlots(s.audio_data, 0, s.audio_data_index \div s.channels) +
         SumSqSlots(s.audio_data,
                    s.audio_data_frames -
                        (frames_per_block - s.audio_data_index \div s.channels),
                    s.audio_data_frames)
    ELSE SumSqFrames(s.audio_data, s.channels, c,
                     s.audio_data_index \div s.channels - frames_per_block,
                     s.audio_data_index \div s.channels)

\* channel_sum of channel c, weighted (processing.rs 111-137 and 250-274).
ChannelSum(s, c, frames_per_block) ==
    LET channel_sum ==
            IF s.audio_data_index < frames_per_block * s.channels
            THEN LET first_part_end == s.audio_data_index \div s.channels
                     second_part_start ==
                         s.audio_data_frames -
                         (frames_per_block - s.audio_data_index \div s.channels)
                 IN  SumSqSlots(s.audio_data, 0, first_part_end) +
                     SumSqSlots(s.audio_data, second_part_start, s.audio_data_frames)
            ELSE LET start_idx == s.audio_data_index \div s.channels - frames_per_block
                 IN  SumSqFrames(s.audio_data, s.channels, c,
                                 start_idx, start_idx + frames_per_block)
    IN  IF s.channel_map[c] = EBUR128_LEFT_SURROUND \/
           s.channel_map[c] = EBUR128_RIGHT_SURROUND
        THEN MulFrac(channel_sum, SURROUND_NUM, SURROUND_DEN)
        ELSE channel_sum

\* The loop over the channels, c..channels-1, skipping the unused ones.
RECURSIVE SumChannels(_, _, _)
SumChannels(s, c, frames_per_block) ==
    IF c >= s.channels THEN 0
    ELSE (IF s.channel_map[c] = EBUR128_UNUSED THEN 0
          ELSE ChannelSum(s, c, frames_per_block))
         + SumChannels(s, c + 1, frames_per_block)

\* calc_gating_block_with_output (processing.rs 242-281): the mean square.
calc_gating_block_with_output(s, frames_per_block) ==
    SumChannels(s, 0, frames_per_block) \div frames_per_block

\* calc_gating_block that stores the block without counting it.
calc_gating_block_NoCount(s, frames_per_block) ==
    LET sum == SumChannels(s, 0, frames_per_block) \div frames_per_block
    IN  IF sum >= ABS_THRESHOLD_ENERGY
        THEN [s EXCEPT !.block_list = Append(@, [energy |-> sum])]
        ELSE s

\* calc_gating_block without the absolute gate: every block is stored.
calc_gating_block_NoAbsGate(s, frames_per_block) ==
    LET sum == SumChannels(s, 0, frames_per_block) \div frames_per_block
    IN  [s EXCEPT !.block_list = Append(@, [energy |-> sum]),
                  !.block_counter = @ + 1]

\* calc_gating_block (processing.rs 103-150): the state after it.
calc_gating_block(s, frames_per_block) ==
    LET sum == SumChannels(s, 0, frames_per_block) \div frames_per_block
    IN  IF sum >= ABS_THRESHOLD_ENERGY
        THEN [s EXCEPT !.block_list = Append(@, [energy |-> sum]),
                       !.block_counter = @ + 1]
        ELSE s

\* energy_in_interval (processing.rs 231-239)
energy_in_interval(s, interval_frames) ==
    IF interval_frames > s.audio_data_frames
    THEN [status |-> "err", value |-> 0]
    ELSE [status |-> "ok", value |-> calc_gating_block_with_output(s, interval_frames)]

\* energy_shortterm (processing.rs 223-228): Result<Option<f64>>
energy_shortterm(s) ==
    IF s.sample_rate * 3 > s.audio_data_frames
    THEN [status |-> "ok", value |-> None]
    ELSE LET e == energy_in_interval(s, s.sample_rate * 3)
         IN  IF e.status = "err" THEN [status |-> "err", value |-> None]
             ELSE [status |-> "ok", value |-> Some(e.value)]

\* The short-term part of a full block (processing.rs 69-79); `needed` is
\* needed_frames of the block just written.
ShortTermStep(s, needed) ==
    IF ~ModeHas(s.mode, EBUR128_MODE_LRA) THEN [status |-> "ok", state |-> s]
    ELSE LET s1 == [s EXCEPT !.short_term_frame_counter = @ + needed]
         IN  IF s1.short_term_frame_counter # s1.sample_rate * 3
             THEN [status |-> "ok", state |-> s1]
             ELSE LET e == energy_shortterm(s1)
                  IN  IF e.status = "err" THEN [status |-> "err", state |-> s1]
                      ELSE [status |-> "ok",
                            state |->
                              [s1 EXCEPT
                                 !.short_term_block_list =
                                     IF IsSome(e.value)
                                     THEN Append(@, [energy |-> Unwrap(e.value)])
                                     ELSE @,
                                 !.short_term_frame_counter = s1.sample_rate * 2]]

\* The branch `remaining_frames >= needed_frames` after a successful
\* filter_float (processing.rs 59-85); s is the state filter_float left.
FullBlock(s) ==
    LET s1 == [s EXCEPT !.audio_data_index = @ + s.needed_frames * s.channels]
        s2 == IF ModeHas(s1.mode, EBUR128_MODE_I)
              THEN calc_gating_block(s1, (s1.sample_rate \div 5) * 2)
              ELSE s1
        st == ShortTermStep(s2, s2.needed_frames)
        s3 == [st.state EXCEPT !.needed_frames = st.state.sample_rate \div 5]
        s4 == IF s3.audio_data_index = s3.audio_data_frames * s3.channels
              THEN [s3 EXCEPT !.audio_data_index = 0]
              ELSE s3
    IN  IF st.status = "err" THEN st ELSE [status |-> "ok", state |-> s4]

\* PartialBlock that forgets to count the frames down from needed_frames.
PartialBlock_NoCountdown(s, remaining_frames) ==
    LET s1 == [s EXCEPT !.audio_data_index = @ + remaining_frames * s.channels]
    IN  IF ModeHas(s1.mode, EBUR128_MODE_LRA)
        THEN [s1 EXCEPT !.short_term_frame_counter = @ + remaining_frames]
        ELSE s1

\* The branch `remaining_frames < needed_frames` after a successful
\* filter_float (processing.rs 89-96).
PartialBlock(s, remaining_frames) ==
    LET s1 == [s EXCEPT !.audio_data_index = @ + remaining_frames * s.channels]
        s2 == IF ModeHas(s1.mode, EBUR128_MODE_LRA)
              THEN [s1 EXCEPT !.short_term_frame_counter = @ + remaining_frames]
              ELSE s1
    IN  [s2 EXCEPT !.needed_frames = @ - remaining_frames]

\* The while loop of add_frames_float (processing.rs 55-98).  The result
\* carries the status, the state and remaining_frames as the loop left it.
RECURSIVE AddFramesLoop(_, _, _, _)
AddFramesLoop(s, src, src_index, remaining_frames) ==
    IF ~(remaining_frames > 0)
    THEN [status |-> "ok", state |-> s, remaining_frames |-> remaining_frames]
    ELSE IF remaining_frames >= s.needed_frames
    THEN LET f == filter_float(s, SliceFrom(src, src_index), s.needed_frames)
             blk == FullBlock(f.state)
         IN  IF f.status # "ok"
             THEN [status |-> f.status, state |-> f.state,
                   remaining_frames |-> remaining_frames]
             ELSE IF blk.status # "ok"
             THEN [status |-> blk.status, state |-> blk.state,
                   remaining_frames |-> remaining_frames - s.needed_frames]
             ELSE AddFramesLoop(blk.state, src,
                                src_index + s.needed_frames * s.channels,
                                remaining_frames - s.needed_frames)
    ELSE LET f == filter_float(s, SliceFrom(src, src_index), remaining_frames)
         IN  IF f.status # "ok"
             THEN [status |-> f.status, state |-> f.state,
                   remaining_frames |-> remaining_frames]
             ELSE [status |-> "ok",
                   state |-> PartialBlock(f.state, remaining_frames),
                   remaining_frames |-> 0]

\* add_frames_float (processing.rs 51-100)
add_frames_float(s, src, frames) == AddFramesLoop(s, src, 0, frames)

\* start_new_segment that leaves the ring buffer as it is.
start_new_segment_KeepsRing(s) ==
    [s EXCEPT !.block_counter = 0,
              !.needed_frames = (s.sample_rate \div 5) * 2,
              !.audio_data_index = 0,
              !.short_term_frame_counter = 0]

\* start_new_segment (processing.rs 289-295)
start_new_segment(s) ==
    [s EXCEPT !.block_counter = 0,
              !.needed_frames = (s.sample_rate \div 5) * 2,
              !.audio_data_index = 0,
              !.audio_data = [j \in DOMAIN s.audio_data |-> 0],
              !.short_term_frame_counter = 0]

\* ---------------------------------------------------------------- loudness
\* f64::log10, as 10000 * log10(n) rounded down to 1/256 of an octave:
\* floor(log2 n), then eight fraction bits by squaring the mantissa
\* (kept on 14 bits), times 10 * log10(2) = 3.0103.
RECURSIVE ILog2(_)
ILog2(n) == IF n < 2 THEN 0 ELSE 1 + ILog2(n \div 2)

RECURSIVE Pow2(_)
Pow2(k) == IF k <= 0 THEN 1 ELSE 2 * Pow2(k - 1)

Mantissa14(n) ==
    IF ILog2(n) <= 14 THEN n * Pow2(14 - ILog2(n)) ELSE n \div Pow2(ILog2(n) - 14)

RECURSIVE LogFraction(_, _, _)
LogFraction(y, bits, acc) ==
    IF bits = 0 THEN acc
    ELSE LET y2 == (y * y) \div Pow2(14)
         IN  IF y2 >= Pow2(15)
             THEN LogFraction(y2 \div 2, bits - 1, 2 * acc + 1)
             ELSE LogFraction(y2, bits - 1, 2 * acc)

\* 10 * log10(n) in thousandths, n >= 1
TenLog10Milli(n) == ((ILog2(n) * 256 + LogFraction(Mantissa14(n), 8, 0)) * 30103) \div 2560

\* energy_to_loudness (processing.rs 284-286): 10 * log10(energy) - 0.691 in
\* milli-LUFS; an energy step is 1e-10, that is -100 dB.
energy_to_loudness(energy) == TenLog10Milli(energy) - 100000 - 691

\* block.energy of every block of a list (processing.rs 175-177)
Energies(list) == [i \in 1..Len(list) |-> list[i].energy]

\* The blocks of the additional states (processing.rs 180-184)
RECURSIVE AdditionalEnergies(_)
AdditionalEnergies(states) ==
    IF states = <<>> THEN <<>>
    ELSE Energies(Head(states).block_list) \o AdditionalEnergies(Tail(states))

\* all_blocks.sort_by(partial_cmp): ascending
RECURSIVE InsertSorted(_, _)
InsertSorted(sorted, x) ==
    IF sorted = <<>> THEN <<x>>
    ELSE IF x < Head(sorted) THEN <<x>> \o sorted
    ELSE <<Head(sorted)>> \o InsertSorted(Tail(sorted), x)

RECURSIVE SortAscending(_)
SortAscending(seq) ==
    IF seq = <<>> THEN <<>>
    ELSE InsertSorted(SortAscending(SubSeq(seq, 1, Len(seq) - 1)), seq[Len(seq)])

\* The loop over all_blocks.iter().rev() (processing.rs 203-212), from
\* position i down: the accumulated energy and the count.
RECURSIVE GateLoop(_, _, _, _, _, _)
GateLoop(sorted, i, limit, relative_threshold, gated_energy, above_thresh_count) ==
    IF i < 1 \/ above_thresh_count >= limit
    THEN [gated_energy |-> gated_energy, above_thresh_count |-> above_thresh_count]
    ELSE IF sorted[i] >= relative_threshold
    THEN GateLoop(sorted, i - 1, limit, relative_threshold,
                  gated_energy + sorted[i], above_thresh_count + 1)
    ELSE GateLoop(sorted, i - 1, limit, relative_threshold,
                  gated_energy, above_thresh_count)

\* relative_threshold divided by the -8 dB factor instead of multiplied.
RelativeThreshold_Divided(energy) == MulFrac(energy, MINUS_EIGHT_DEN, MINUS_EIGHT_NUM)

\* relative_threshold (processing.rs 197)
RelativeThreshold(energy) == MulFrac(energy, MINUS_EIGHT_NUM, MINUS_EIGHT_DEN)

\* The gated mean with the relative threshold taken from the loudest block
\* instead of the block at threshold_index.
GatedEnergy_ThresholdFromLoudest(all_blocks, block_count_limit) ==
    IF all_blocks = <<>> THEN None
    ELSE LET sorted == SortAscending(all_blocks)
             relative_threshold == RelativeThreshold(sorted[Len(sorted)])
             limit == IF IsSome(block_count_limit) THEN Unwrap(block_count_limit)
                      ELSE Len(all_blocks)
             acc == GateLoop(sorted, Len(sorted), limit, relative_threshold, 0, 0)
         IN  IF acc.above_thresh_count = 0 THEN None
             ELSE Some(acc.gated_energy \div acc.above_thresh_count)

\* The gated mean energy of a list of energies (processing.rs 186-218), None
\* where the code returns None.
GatedEnergy(all_blocks, block_count_limit) ==
    IF all_blocks = <<>> THEN None
    ELSE LET threshold_index == (Len(all_blocks) * 9) \div 10
             sorted == SortAscending(all_blocks)
             relative_threshold == RelativeThreshold(sorted[threshold_index + 1])
             limit == IF IsSome(block_count_limit) THEN Unwrap(block_count_limit)
                      ELSE Len(all_blocks)
             acc == GateLoop(sorted, Len(sorted), limit, relative_threshold, 0, 0)
         IN  IF threshold_index >= Len(all_blocks) THEN None
             ELSE IF acc.above_thresh_count = 0 THEN None
             ELSE Some(acc.gated_energy \div acc.above_thresh_count)

\* gated_loudness that sorts the block list of the state, not a copy.
gated_loudness_SortsInPlace(s, additional_states, block_count_limit) ==
    LET all_blocks == Energies(s.block_list) \o AdditionalEnergies(additional_states)
        e == GatedEnergy(all_blocks, block_count_limit)
        sorted == SortAscending(Energies(s.block_list))
    IN  [state |-> [s EXCEPT !.block_list =
                                 [i \in 1..Len(sorted) |-> [energy |-> sorted[i]]]],
         value |-> IF IsSome(e) THEN Some(energy_to_loudness(Unwrap(e))) ELSE None]

\* gated_loudness (processing.rs 171-220) takes &mut self: the result is
\* the state it leaves and the value it returns.
gated_loudness(s, additional_states, block_count_limit) ==
    LET all_blocks == Energies(s.block_list) \o AdditionalEnergies(additional_states)
        e == GatedEnergy(all_blocks, block_count_limit)
    IN  [state |-> s,
         value |-> IF IsSome(e) THEN Some(energy_to_loudness(Unwrap(e))) ELSE None]

\* loudness_global (processing.rs 153-159)
loudness_global(s) ==
    IF BitAnd(s.mode, EBUR128_MODE_I) # EBUR128_MODE_I
    THEN [state |-> s, value |-> None]
    ELSE gated_loudness(s, <<>>, None)

\* loudness_segment (processing.rs 162-168)
loudness_segment(s) ==
    IF BitAnd(s.mode, EBUR128_MODE_I) # EBUR128_MODE_I
    THEN [state |-> s, value |-> None]
    ELSE gated_loudness(s, <<>>, Some(s.block_counter))

\* ------------------------------------------------------------ the machine
\* state : the Ebur128State of the session (NoState when new failed)
\* args  : the arguments new was called with
\* ret   : the last call and what it returned
\* hist  : what the meter consumed so far, in order: one event per frame
\*         written by add_frames_float and one per start_new_segment
\* measurement, info : the loudness handed to AudioLoudnessInfo::new and the
\*         record it built (analysis.rs 146-155)
VARIABLES state, args, ret, hist, measurement, info

vars == <<state, args, ret, hist, measurement, info>>

\* The inputs of the model: the arguments of new and the sample values
\* of a source buffer.  A rate below 5 has sample_rate / 5 = 0; rate 6 has
\* 200 ms = 1 frame and rate 12 has 200 ms = 2 frames.  Every mode mask is
\* constructed at rate 4; the meters that are fed take the mask I (5), with
\* one or two channels, or the mask of M, S, I and LRA together (15).
Channels == {1, 2}
SampleRates == {4, 6, 12}
Modes == 0..15
SampleVals(channels) == IF channels = 1 THEN {0, 1, 8} ELSE {0, 8}

\* The meter with every mode bit (15) is the one fed for longer than three
\* seconds (3 * sample_rate = 18 frames, the short-term window): up to
\* LongFrames frames, silent after its first call.
LongRun(a) == a.sample_rate = 6 /\ a.mode = 15
FrameBudget(a) == IF LongRun(a) THEN LongFrames ELSE MaxFrames
Samples(a, h) ==
    IF LongRun(a) THEN (IF h = <<>> THEN {0, 8} ELSE {0})
    ELSE SampleVals(a.channels)

InputConfig(channels, sample_rate, mode) ==
    \/ sample_rate = 4
    \/ sample_rate = 6 /\ mode = EBUR128_MODE_I
    \/ sample_rate = 6 /\ mode = 15 /\ channels = 1
    \/ sample_rate = 12 /\ mode = EBUR128_MODE_I /\ channels = 1

NoInfo == [target_scale |-> 0]
NoMeasurement == "unset"

FrameEvent(frame) == [reset |-> FALSE, frame |-> frame]
ResetEvent == [reset |-> TRUE, frame |-> <<>>]

RECURSIVE FramesFed(_)
FramesFed(h) ==
    IF h = <<>> THEN 0
    ELSE (IF Head(h).reset THEN 0 ELSE 1) + FramesFed(Tail(h))

RECURSIVE Resets(_)
Resets(h) ==
    IF h = <<>> THEN 0
    ELSE (IF Head(h).reset THEN 1 ELSE 0) + Resets(Tail(h))

\* Frame i of an interleaved source buffer.
FrameOf(src, channels, i) == [c \in 0..(channels - 1) |-> src[i * channels + c]]

\* The events of the first n frames of src.
ConsumedEvents(src, channels, n) ==
    [i \in 1..n |-> FrameEvent(FrameOf(src, channels, i - 1))]

Init ==
    \E channels \in Channels, sample_rate \in SampleRates, mode \in Modes :
        LET r == New(channels, sample_rate, mode) IN
        /\ InputConfig(channels, sample_rate, mode)
        /\ state = r.state
        /\ args = [channels |-> channels, sample_rate |-> sample_rate, mode |-> mode]
        /\ ret = [op |-> "new", status |-> r.status, value |-> None]
        /\ hist = <<>>
        /\ measurement = NoMeasurement
        /\ info = NoInfo

Alive == state # NoState /\ ret.status # "panic" /\ measurement = NoMeasurement

\* The source buffers tried for one call: the data of exactly the frames
\* asked for, the same with its last sample missing, and the same with one
\* sample to spare.
SrcVariants(data) ==
    {data, [i \in 0..Len0(data) |-> IF i < Len0(data) THEN data[i] ELSE 0]}
    \cup (IF Len0(data) = 0 THEN {} ELSE {[i \in 0..(Len0(data) - 2) |-> data[i]]})

\* feed: add_frames_float(src, frames)
AddFrames ==
    /\ Alive
    /\ \E frames \in 0..MaxChunk :
          /\ FramesFed(hist) + frames <= FrameBudget(args)
          /\ \E data \in [0..(frames * state.channels - 1) -> Samples(args, hist)] :
             \E src \in SrcVariants(data) :
             \E r \in {add_frames_float(state, src, frames)} :
                /\ state' = r.state
                /\ ret' = [op |-> "add_frames_float", status |-> r.status, value |-> None]
                /\ hist' = hist \o ConsumedEvents(src, state.channels,
                                                  frames - r.remaining_frames)
    /\ UNCHANGED <<args, measurement, info>>

\* integrated_loudness()
LoudnessGlobal ==
    /\ Alive
    /\ LET r == loudness_global(state) IN
          /\ state' = r.state
          /\ ret' = [op |-> "loudness_global", status |-> "ok", value |-> r.value]
    /\ UNCHANGED <<args, hist, measurement, info>>

\* segment_loudness()
LoudnessSegment ==
    /\ Alive
    /\ LET r == loudness_segment(state) IN
          /\ state' = r.state
          /\ ret' = [op |-> "loudness_segment", status |-> "ok", value |-> r.value]
    /\ UNCHANGED <<args, hist, measurement, info>>

\* reset_segment()
StartNewSegment ==
    /\ Alive
    /\ Resets(hist) < MaxResets
    /\ state' = start_new_segment(state)
    /\ ret' = [op |-> "start_new_segment", status |-> "ok", value |-> None]
    /\ hist' = Append(hist, ResetEvent)
    /\ UNCHANGED <<args, measurement, info>>

Next == AddFrames \/ LoudnessGlobal \/ LoudnessSegment \/ StartNewSegment

Spec == Init /\ [][Next]_vars

\* ------------------------------------------------------ reference replays
\* The state new returned for the arguments of this run.
FreshState == New(args.channels, args.sample_rate, args.mode).state

\* The history fed one frame per call of add_frames_float.
RECURSIVE FeedOneByOne(_, _)
FeedOneByOne(s, h) ==
    IF h = <<>> THEN s
    ELSE FeedOneByOne(IF Head(h).reset THEN start_new_segment(s)
                      ELSE add_frames_float(s, Head(h).frame, 1).state,
                      Tail(h))

\* The number of frame events at the head of a history.
RECURSIVE LeadingFrames(_)
LeadingFrames(h) ==
    IF h = <<>> \/ Head(h).reset THEN 0 ELSE 1 + LeadingFrames(Tail(h))

\* The first n frame events of a history as one interleaved source buffer.
Interleave(h, channels, n) ==
    [j \in 0..(n * channels - 1) |-> h[(j \div channels) + 1].frame[j % channels]]

\* The history fed with one call of add_frames_float per segment.
RECURSIVE FeedAtOnce(_, _)
FeedAtOnce(s, h) ==
    IF h = <<>> THEN s
    ELSE IF Head(h).reset THEN FeedAtOnce(start_new_segment(s), Tail(h))
    ELSE FeedAtOnce(
            add_frames_float(s, Interleave(h, s.channels, LeadingFrames(h)),
                             LeadingFrames(h)).state,
            SubSeq(h, LeadingFrames(h) + 1, Len(h)))

\* ------------------------------------------------------------------ claims
\* C1: chunk-invariance of feed.  However the frames consumed so far were
\* split into add_frames_float calls, the meter state (every field) equals
\* the state reached by feeding the same frames one frame per call, and the
\* state reached by feeding each segment in a single call; so
\* integrated_loudness() returns the same in all three.
C1_ChunkInvariance ==
    state # NoState =>
        /\ state = FeedOneByOne(FreshState, hist)
        /\ state = FeedAtOnce(FreshState, hist)
        /\ loudness_global(state).value
               = loudness_global(FeedOneByOne(FreshState, hist)).value

\* C1 witness: three or more frames were fed, the last call succeeded, and
\* two gating blocks were stored (the calls crossed two window boundaries).
C1_Witness ==
    /\ state # NoState
    /\ ret.op = "add_frames_float" /\ ret.status = "ok"
    /\ FramesFed(hist) >= 3
    /\ Len(state.block_list) >= 2

\* C2: feed(src, frame_count) returns an error exactly when src is shorter
\* than frame_count * channel_count, in every state the meter can be in and
\* for every sample rate > 0.
C2_ErrorIffShort ==
    state # NoState =>
        \A frames \in 0..MaxChunk :
        \A len \in 0..(MaxChunk * state.channels) :
            LET src == [i \in 0..(len - 1) |-> 0]
            IN  (add_frames_float(state, src, frames).status # "ok")
                    <=> (len < frames * state.channels)

\* The bits of a mask, and "mask selects the measurement c": every bit of
\* the mode constant c is set in the mask.
Bits(n) == {k \in 0..7 : (n \div Pow2(k)) % 2 = 1}
Selects(mask, c) == Bits(c) \subseteq Bits(mask)

\* C3: construct(channel_count, sample_rate, mode_mask) succeeds if and only
\* if the mask selects at least one of momentary (1), short-term (3) or
\* integrated (5); otherwise it returns the error and no meter state exists.
C3_ConstructIffModeSelected ==
    LET selected == \/ Selects(args.mode, 1)
                    \/ Selects(args.mode, 3)
                    \/ Selects(args.mode, 5)
    IN  /\ selected <=> state # NoState
        /\ ret.op = "new" => (ret.status = "ok" <=> selected)
        /\ ~selected => ret = [op |-> "new", status |-> "err", value |-> None]

\* C3 witness: a non-zero mask that selects no measurement was rejected.
C3_Witness ==
    /\ ret.op = "new" /\ ret.status = "err"
    /\ args.mode # 0
    /\ state = NoState

\* C4: integrated_loudness() returns unavailable exactly when the integrated
\* mode is not enabled or momentary_blocks is empty; with the mode enabled
\* and a block stored it returns a value.
C4_UnavailableIffNoModeOrNoBlock ==
    state # NoState =>
        (loudness_global(state).value = None
            <=> (~Selects(state.mode, 5) \/ Len(state.block_list) = 0))

\* The largest energy of a non-empty block list.
RECURSIVE MaxEnergy(_)
MaxEnergy(list) ==
    IF Len(list) = 1 THEN list[1].energy
    ELSE IF Head(list).energy >= MaxEnergy(Tail(list)) THEN Head(list).energy
    ELSE MaxEnergy(Tail(list))

\* C4 witness: integrated_loudness() returned a value while the relative
\* gate (-8 dB under the loudest block) excluded a stored block.
C4_Witness ==
    /\ state # NoState
    /\ ret.op = "loudness_global" /\ ret.value # None
    /\ \E i \in 1..Len(state.block_list) :
          state.block_list[i].energy
              < MulFrac(MaxEnergy(state.block_list), MINUS_EIGHT_NUM, MINUS_EIGHT_DEN)

\* Every sample the meter consumed so far was zero.
OnlySilence(h) ==
    \A i \in 1..Len(h) :
        ~h[i].reset => \A c \in DOMAIN h[i].frame : h[i].frame[c] = 0

\* C5: a fresh meter in integrated mode fed only all-zero samples, whatever
\* the length and the chunking, stores no momentary block, and
\* integrated_loudness() is unavailable after every such feed.
C5_SilenceStoresNoBlock ==
    (state # NoState /\ Selects(state.mode, 5) /\ OnlySilence(hist)) =>
        /\ state.block_list = <<>>
        /\ state.block_counter = 0
        /\ loudness_global(state).value = None

\* C5 witness: silence for longer than one 400 ms window was fed to a meter
\* in integrated mode and integrated_loudness() was asked.
C5_Witness ==
    /\ state # NoState /\ Selects(state.mode, 5)
    /\ args.sample_rate >= 5
    /\ OnlySilence(hist)
    /\ FramesFed(hist) > (args.sample_rate \div 5) * 2
    /\ ret.op = "loudness_global" /\ ret.value = None

Queries == {"loudness_global", "loudness_segment"}

\* C6: integrated_loudness() and segment_loudness() leave every field of
\* the meter state unchanged, and a query repeated with no call in between
\* returns what it returned before.
C6_QueriesNonDestructive ==
    [][ret'.op \in Queries =>
          /\ state' = state
          /\ (ret.op = ret'.op => ret'.value = ret.value)]_vars

\* C6 witness: a query returned a value from a block list that is not in
\* ascending order of energy.
C6_Witness ==
    /\ state # NoState
    /\ ret.op \in Queries /\ ret.value # None
    /\ Len(state.block_list) >= 2
    /\ state.block_list[1].energy > state.block_list[2].energy

\* The fields start_new_segment sets, as they are right after it.
SegmentStarted(s) ==
    /\ s.block_counter = 0
    /\ s.short_term_frame_counter = 0
    /\ s.needed_frames = (s.sample_rate \div 5) * 2
    /\ s.audio_data_index = 0
    /\ \A j \in DOMAIN s.audio_data : s.audio_data[j] = 0

TwiceAroundReset(h, n) ==
    /\ Len(h) = 2 * n + 1
    /\ h[n + 1].reset
    /\ \A i \in 1..n : ~h[i].reset /\ h[n + 1 + i] = h[i]

\* C8: feeding D, recording the segment loudness, calling reset_segment()
\* and feeding D again yields the segment loudness recorded the first time.
C8_ResetReproducesSegment ==
    \A n \in 1..MaxFrames :
        (state # NoState /\ TwiceAroundReset(hist, n)) =>
            loudness_segment(state).value
                = loudness_segment(FeedOneByOne(FreshState, SubSeq(hist, 1, n))).value

\* The blocks stored since the last start_new_segment: the last
\* block_counter entries of block_list.
BlocksSinceReset(s) ==
    SubSeq(s.block_list, Len(s.block_list) - s.block_counter + 1, Len(s.block_list))

\* C9: segment_loudness() depends only on the momentary blocks stored since
\* the last reset_segment(): it returns what it returns on the meter that
\* holds those blocks and none from before the reset.
C9_SegmentOnlySinceReset ==
    state # NoState =>
        loudness_segment(state).value
            = loudness_segment([state EXCEPT !.block_list = BlocksSinceReset(state)]).value

\* ------------------------------------------------------ gain derivation
\* A loudness handed to AudioLoudnessInfo::new is an f64: a finite value,
\* kept in e7 = 1e-7 dB, or NaN or an infinity.  target_scale is an f32,
\* kept as its bit pattern; positive f32 values are ordered as their bit
\* patterns are, and 1.0f32 is 0x3F800000.
Finite(e7) == [kind |-> "finite", e7 |-> e7]
NaN == [kind |-> "nan", e7 |-> 0]
PosInf == [kind |-> "+inf", e7 |-> 0]
NegInf == [kind |-> "-inf", e7 |-> 0]

REFERENCE_LOUDNESS == -180000000
MINUS_SEVENTY == -700000000
ONE_F32 == 1065353216
ZERO_F32 == 0
INFINITY_F32 == 2139095040
NAN_F32 == 2143289344

\* 10.0f64.powf(d / 20.0) as f32 for d = reference_loudness - lufs in
\* 1e-7 dB: the bit pattern of the f64 power rounded to the nearest f32.
PowOver20F32 ==
    -1180000000 :> 900266073 @@ -280000000 :> 1025708176 @@ -230000000 :> 1032912063 @@
    -180000000 :> 1040247289 @@ -130000000 :> 1046822587 @@ -80000000 :> 1053545652 @@
    -40000000 :> 1059161708 @@ -20000000 :> 1061902616 @@ -10000000 :> 1063528709 @@
    -5000000 :> 1064414713 @@ -1000 :> 1065353023 @@ -12 :> 1065353214 @@
    -11 :> 1065353214 @@ -10 :> 1065353214 @@ -9 :> 1065353214 @@
    -8 :> 1065353214 @@ -7 :> 1065353215 @@ -6 :> 1065353215 @@
    -5 :> 1065353215 @@ -4 :> 1065353215 @@ -3 :> 1065353215 @@
    -2 :> 1065353216 @@ -1 :> 1065353216 @@ 0 :> 1065353216 @@
    1 :> 1065353216 @@ 2 :> 1065353216 @@ 3 :> 1065353216 @@
    4 :> 1065353216 @@ 5 :> 1065353216 @@ 6 :> 1065353217 @@
    7 :> 1065353217 @@ 8 :> 1065353217 @@ 9 :> 1065353217 @@
    10 :> 1065353217 @@ 11 :> 1065353217 @@ 12 :> 1065353217 @@
    1000 :> 1065353313 @@ 5000000 :> 1065850272 @@ 10000000 :> 1066376781 @@
    20000000 :> 1067525240 @@ 50000000 :> 1071881897 @@ 60000000 :> 1073702081 @@
    120000000 :> 1082051041 @@ 220000000 :> 1095331222 @@ 320000000 :> 1109343789 @@
    420000000 :> 1123797243 @@ 510000000 :> 1135699997 @@ 519999999 :> 1137118648 @@
    520000000 :> 1137118648 @@ 520000001 :> 1137118648 @@ 530000000 :> 1138710400 @@
    820000000 :> 1178907908 @@ 1820000000 :> 1318458203

\* f64::is_finite
is_finite(lufs) == lufs.kind = "finite"

\* `lufs > -70.0` on f64: false for NaN, true for +inf, false for -inf.
GreaterThanMinusSeventy(lufs) ==
    \/ lufs.kind = "+inf"
    \/ lufs.kind = "finite" /\ lufs.e7 > MINUS_SEVENTY

\* 10.0f64.powf((reference_loudness - lufs) / 20.0) as f32
ScaleF32(lufs) ==
    IF lufs.kind = "finite" THEN PowOver20F32[REFERENCE_LOUDNESS - lufs.e7]
    ELSE IF lufs.kind = "+inf" THEN ZERO_F32
    ELSE IF lufs.kind = "-inf" THEN INFINITY_F32
    ELSE NAN_F32

\* AudioLoudnessInfo::new with `lufs >= -70.0` for `lufs > -70.0`.
AudioLoudnessInfoNew_GateInclusive(lufs) ==
    [target_scale |->
        IF is_finite(lufs) /\ lufs.e7 >= MINUS_SEVENTY
        THEN ScaleF32(lufs) ELSE ONE_F32]

\* AudioLoudnessInfo::new (processing.rs 309-325): the target_scale it sets.
AudioLoudnessInfoNew(lufs) ==
    [target_scale |->
        IF is_finite(lufs) /\ GreaterThanMinusSeventy(lufs)
        THEN ScaleF32(lufs) ELSE ONE_F32]

\* state.loudness_global().unwrap_or(-70.0) (analysis.rs 147-148)
UnwrapOrMinusSeventy(o) == IF IsSome(o) THEN Unwrap(o) ELSE Finite(MINUS_SEVENTY)

\* The loudness values a measurement is drawn from: every lufs the table
\* has, the non-finite values, and no measurement.
MeasuredLoudness ==
    {None} \cup {Some(NaN), Some(PosInf), Some(NegInf)}
    \cup {Some(Finite(REFERENCE_LOUDNESS - d)) : d \in DOMAIN PowOver20F32}

InitGain ==
    /\ measurement \in MeasuredLoudness
    /\ info = NoInfo
    /\ args = [channels |-> 1, sample_rate |-> 6, mode |-> EBUR128_MODE_I]
    /\ state = New(1, 6, EBUR128_MODE_I).state
    /\ ret = [op |-> "new", status |-> "ok", value |-> None]
    /\ hist = <<>>

\* The end of analyze_wav_file (analysis.rs 146-155)
Analyze ==
    /\ info = NoInfo
    /\ info' = AudioLoudnessInfoNew(UnwrapOrMinusSeventy(measurement))
    /\ ret' = [op |-> "analyze_wav_file", status |-> "ok", value |-> None]
    /\ UNCHANGED <<state, args, hist, measurement>>

NextGain == Analyze

SpecGain == InitGain /\ [][NextGain]_vars

\* The loudness the gain was derived from.
Loudness == UnwrapOrMinusSeventy(measurement)

\* The gain is exactly 1.0 when the loudness is unavailable, non-finite or
\* at most -70 LUFS, and at -18 LUFS.
GainIsUnityWhereClamped ==
    /\ (measurement = None \/ ~is_finite(Loudness) \/ Loudness.e7 <= MINUS_SEVENTY)
           => info.target_scale = ONE_F32
    /\ (is_finite(Loudness) /\ Loudness.e7 = REFERENCE_LOUDNESS)
           => info.target_scale = ONE_F32

\* C10 as stated: the gain is 1.0 when the loudness is unavailable,
\* non-finite or <= -70 LUFS, and at -18 LUFS; it is greater than 1.0 for
\* -70 < loudness < -18 and less than 1.0 for loudness > -18.
C10_GainStrictlyOffUnity ==
    info # NoInfo =>
        /\ GainIsUnityWhereClamped
        /\ (is_finite(Loudness) /\ Loudness.e7 > MINUS_SEVENTY
                /\ Loudness.e7 < REFERENCE_LOUDNESS)
               => info.target_scale > ONE_F32
        /\ (is_finite(Loudness) /\ Loudness.e7 > REFERENCE_LOUDNESS)
               => info.target_scale < ONE_F32

\* C10, amended: the gain is 1.0 when the loudness is unavailable,
\* non-finite or <= -70 LUFS, and at -18 LUFS; for -70 < loudness < -18 it
\* is at least 1.0, and greater than 1.0 from 1e-6 dB below -18 on; for
\* loudness > -18 it is at most 1.0, and less than 1.0 from 1e-6 dB above
\* -18 on (1e-6 dB is 10 steps of e7; a loudness closer to -18 LUFS can
\* round to 1.0f32).
C10_GainClampsToUnity ==
    info # NoInfo =>
        /\ GainIsUnityWhereClamped
        /\ (is_finite(Loudness) /\ Loudness.e7 > MINUS_SEVENTY
                /\ Loudness.e7 < REFERENCE_LOUDNESS)
               => /\ info.target_scale >= ONE_F32
                  /\ Loudness.e7 <= REFERENCE_LOUDNESS - 10
                         => info.target_scale > ONE_F32
        /\ (is_finite(Loudness) /\ Loudness.e7 > REFERENCE_LOUDNESS)
               => /\ info.target_scale <= ONE_F32
                  /\ Loudness.e7 >= REFERENCE_LOUDNESS + 10
                         => info.target_scale < ONE_F32

\* C10 witness: a gain was derived from a loudness 1e-7 dB below -18 LUFS
\* and is exactly 1.0.
C10_Witness ==
    /\ info # NoInfo
    /\ measurement = Some(Finite(REFERENCE_LOUDNESS - 1))
    /\ info.target_scale = ONE_F32

\* ------------------------------------------------- more than two channels
\* Meters of five and of seven channels (roles L R C unused Ls, and
\* L R C unused Ls Rs unused) at rate 6 in integrated mode.  Every channel
\* in use carries the same signal; the unused channels carry another.
MultiChannels == {5, 7}
UsedVals == {0, 1, 8}
UnusedVals == {0, 8}

\* A source buffer of `frames` frames: frame i has used[i] on every channel
\* in use and unused[i] on every unused channel.
MultiSrc(channels, frames, used, unused) ==
    [j \in 0..(frames * channels - 1) |->
        IF ChannelRole(j % channels) = EBUR128_UNUSED
        THEN unused[j \div channels] ELSE used[j \div channels]]

InitMulti ==
    \E channels \in MultiChannels :
        /\ state = New(channels, 6, EBUR128_MODE_I).state
        /\ args = [channels |-> channels, sample_rate |-> 6, mode |-> EBUR128_MODE_I]
        /\ ret = [op |-> "new", status |-> "ok", value |-> None]
        /\ hist = <<>>
        /\ measurement = NoMeasurement
        /\ info = NoInfo

AddFramesMulti ==
    /\ Alive
    /\ \E frames \in 1..MaxChunk :
          /\ FramesFed(hist) + frames <= MaxFrames
          /\ \E used \in [0..(frames - 1) -> UsedVals],
                unused \in [0..(frames - 1) -> UnusedVals] :
             \E src \in {MultiSrc(state.channels, frames, used, unused)} :
             \E r \in {add_frames_float(state, src, frames)} :
                /\ state' = r.state
                /\ ret' = [op |-> "add_frames_float", status |-> r.status, value |-> None]
                /\ hist' = hist \o ConsumedEvents(src, state.channels,
                                                  frames - r.remaining_frames)
    /\ UNCHANGED <<args, measurement, info>>

NextMulti == AddFramesMulti \/ LoudnessGlobal

SpecMulti == InitMulti /\ [][NextMulti]_vars

\* What channel c adds to the sum of a gating block: the sum with the
\* channel less the sum with the channel taken out of the channel map.
Added(s, c) ==
    SumChannels(s, 0, (s.sample_rate \div 5) * 2)
    - SumChannels([s EXCEPT !.channel_map[c] = EBUR128_UNUSED], 0,
                  (s.sample_rate \div 5) * 2)

\* C11: in the default channel mapping only the channel indices 4 and 5
\* are surround, and with the same signal on every channel a surround
\* channel adds 1.41 times what channel 0, 1 or 2 adds to a gating block, at
\* every position of the ring buffer, also where the window is read as a
\* head and a tail segment.
C11_SurroundWeight ==
    \A c \in 0..(state.channels - 1) :
        /\ (state.channel_map[c] \in {4, 5}) <=> (c \in {4, 5})
        /\ c \in {4, 5} =>
              \A f \in 0..2 : Added(state, c) = (Added(state, f) * 141) \div 100

\* C11 witness: a block was stored from a window read as head and tail
\* segment, and a surround channel added energy to it.
C11_Witness ==
    /\ ret.op = "add_frames_float" /\ ret.status = "ok"
    /\ state.audio_data_index > 0
    /\ state.audio_data_index < (state.sample_rate \div 5) * 2 * state.channels
    /\ state.needed_frames = state.sample_rate \div 5
    /\ Len(state.block_list) >= 2
    /\ Added(state, 4) > Added(state, 0)

\* The history with the samples of the unused channels replaced by zero.
ZeroUnused(h) ==
    [i \in 1..Len(h) |->
        IF h[i].reset THEN h[i]
        ELSE FrameEvent([c \in DOMAIN h[i].frame |->
                            IF c = 3 \/ c >= 6 THEN 0 ELSE h[i].frame[c]])]

\* C19: with more than three channels, the samples of the unused channels
\* (index 3 and every index >= 6) do not reach the meter: the state, with
\* its block lists, and the loudness are those of the same feed with
\* zeros on the unused channels, and the filter memory and the ring-buffer
\* slots of an unused channel stay zero.
C19_UnusedChannelsIgnored ==
    /\ state = FeedOneByOne(FreshState, ZeroUnused(hist))
    /\ loudness_global(state).value
           = loudness_global(FeedOneByOne(FreshState, ZeroUnused(hist))).value
    /\ \A c \in 0..(state.channels - 1) :
          (c = 3 \/ c >= 6) =>
              /\ \A k \in 0..4 : state.v[c][k] = 0
              /\ \A i \in 0..(state.audio_data_frames - 1) :
                    state.audio_data[i * state.channels + c] = 0

\* C19 witness: a seven-channel meter stored a block and returned a
\* loudness after a feed whose unused channels carried non-zero samples.
C19_Witness ==
    /\ state.channels = 7
    /\ ret.op = "loudness_global" /\ ret.value # None
    /\ hist # ZeroUnused(hist)
    /\ \E i \in 1..Len(hist) : hist[i].frame[3] # 0 /\ hist[i].frame[6] # 0

\* ------------------------------------------------------ reference windows
\* Sum of the squares of channel c over the frames lo..hi of a sequence of
\* weighted (filtered) frames.
RECURSIVE WindowSum(_, _, _, _)
WindowSum(ys, c, lo, hi) ==
    IF lo > hi THEN 0 ELSE Sq(ys[lo][c]) + WindowSum(ys, c, lo + 1, hi)

\* Sum over the channels c..channels-1 that are not unused of weight(c)
\* times the channel's sum of squares over the last frames_per_block frames.
RECURSIVE WeightedWindow(_, _, _, _)
WeightedWindow(ys, channels, c, frames_per_block) ==
    IF c >= channels THEN 0
    ELSE (IF ChannelRole(c) = EBUR128_UNUSED THEN 0
          ELSE IF ChannelRole(c) \in {EBUR128_LEFT_SURROUND, EBUR128_RIGHT_SURROUND}
          THEN (WindowSum(ys, c, Len(ys) - frames_per_block + 1, Len(ys)) * 141) \div 100
          ELSE WindowSum(ys, c, Len(ys) - frames_per_block + 1, Len(ys)))
         + WeightedWindow(ys, channels, c + 1, frames_per_block)

\* The energies a history stores: the frames go through the filter of
\* their channel; 400 ms after the start of a segment and every 200 ms
\* from then on the mean square of the last 400 ms is taken over the
\* channels, and kept if it is positive.  v is the filter memory, ys the
\* weighted frames of the segment so far.
RECURSIVE WindowEnergies(_, _, _, _, _)
WindowEnergies(s, h, v, ys, energies) ==
    IF h = <<>> THEN energies
    ELSE IF Head(h).reset THEN WindowEnergies(s, Tail(h), v, <<>>, energies)
    ELSE LET step == [c \in 0..(s.channels - 1) |->
                         IF ChannelRole(c) = EBUR128_UNUSED
                         THEN [v |-> v[c], output |-> 0]
                         ELSE FilterStep(s.a, s.b, v[c], Head(h).frame[c])]
             ys1 == Append(ys, [c \in 0..(s.channels - 1) |-> step[c].output])
             u == s.sample_rate \div 5
             evaluated == Len(ys1) >= 2 * u /\ (Len(ys1) - 2 * u) % u = 0
             energy == WeightedWindow(ys1, s.channels, 0, 2 * u) \div (2 * u)
         IN  WindowEnergies(s, Tail(h), [c \in 0..(s.channels - 1) |-> step[c].v], ys1,
                            IF evaluated /\ energy > 0 THEN Append(energies, energy)
                            ELSE energies)

\* C13: every stored gating block holds the sum over the channels in use
\* of weight(c) times the sum of the squares of channel c's weighted
\* samples in the last frames_per_block frames fed, divided by
\* frames_per_block, also where the window straddles the end of the ring
\* buffer.
C13_WindowEnergy ==
    (state # NoState /\ Selects(state.mode, 5)) =>
        Energies(state.block_list)
            = WindowEnergies(FreshState, hist, FreshState.v, <<>>, <<>>)

\* ------------------------------------------------------------ long feeds
\* One-channel meters with the short-term bit, whose ring buffer holds
\* 3 * sample_rate frames: rate 6 (200 ms = 1 frame, 18 frames) and rate 12
\* (2 frames, 36 frames) with every mode bit, rate 11 (2 frames, 33 frames)
\* with the masks S (3) and LRA (11).  The first call of a run at rate 6 or
\* 12 may carry a signal; everything else is silence.
CadenceConfig(sample_rate, mode) ==
    \/ sample_rate \in {6, 12} /\ mode = 15
    \/ sample_rate = 11 /\ mode \in {EBUR128_MODE_S, EBUR128_MODE_LRA}

CadenceSamples(a, h) ==
    IF a.sample_rate # 11 /\ h = <<>> THEN {0, 8} ELSE {0}

InitCadence ==
    \E sample_rate \in {6, 11, 12}, mode \in {EBUR128_MODE_S, EBUR128_MODE_LRA, 15} :
        /\ CadenceConfig(sample_rate, mode)
        /\ state = New(1, sample_rate, mode).state
        /\ args = [channels |-> 1, sample_rate |-> sample_rate, mode |-> mode]
        /\ ret = [op |-> "new", status |-> "ok", value |-> None]
        /\ hist = <<>>
        /\ measurement = NoMeasurement
        /\ info = NoInfo

AddFramesCadence ==
    /\ Alive
    /\ \E frames \in 1..MaxChunk :
          /\ FramesFed(hist) + frames <= CadenceFrames
          /\ \E src \in [0..(frames * state.channels - 1) -> CadenceSamples(args, hist)] :
             \E r \in {add_frames_float(state, src, frames)} :
                /\ state' = r.state
                /\ ret' = [op |-> "add_frames_float", status |-> r.status, value |-> None]
                /\ hist' = hist \o ConsumedEvents(src, state.channels,
                                                  frames - r.remaining_frames)
    /\ UNCHANGED <<args, measurement, info>>

NextCadence == AddFramesCadence \/ StartNewSegment

SpecCadence == InitCadence /\ [][NextCadence]_vars

\* The frames fed since construction or the last start_new_segment.
RECURSIVE FramesSinceReset(_)
FramesSinceReset(h) ==
    IF h = <<>> \/ h[Len(h)].reset THEN 0
    ELSE 1 + FramesSinceReset(SubSeq(h, 1, Len(h) - 1))

\* C14: between calls write_index is in [0, capacity * channel_count), and
\* no feed step writes a sample at or past the end of the ring buffer.
C14_WriteIndexInRing ==
    state # NoState =>
        /\ ret.status # "panic"
        /\ state.audio_data_index >= 0
        /\ state.audio_data_index < state.audio_data_frames * state.channels

\* The gating-block evaluations after n frames of a segment, with u frames
\* in 200 ms: none before 2u frames, then one more every u frames.
Evaluations(n, u) == IF n < 2 * u THEN 0 ELSE 1 + (n - 2 * u) \div u

\* C15: with u = sample_rate / 5, frames_until_next_block is 2u at
\* construction and after reset_segment(), always between 1 and 2u, and u
\* after every window evaluation; after N frames fed since construction
\* or the last reset there were 0 evaluations if N < 2u and
\* 1 + floor((N - 2u) / u) otherwise (needed_frames counts down to the next
\* one, and no more blocks are counted than evaluations were made).
C15_BlockCadence ==
    state # NoState =>
        LET u == state.sample_rate \div 5
            N == FramesSinceReset(hist)
        IN  /\ N = 0 => state.needed_frames = 2 * u
            /\ state.needed_frames >= 1
            /\ state.needed_frames <= 2 * u
            /\ state.needed_frames
                   = (IF N < 2 * u THEN 2 * u - N ELSE u - ((N - 2 * u) % u))
            /\ state.block_counter <= Evaluations(N, u)

\* The short-term blocks a history is due: per segment none before
\* 3 * sample_rate frames, then one more every sample_rate frames.
RECURSIVE ShortTermDue(_, _, _)
ShortTermDue(h, n, sample_rate) ==
    LET due == IF n < 3 * sample_rate THEN 0
               ELSE 1 + (n - 3 * sample_rate) \div sample_rate
    IN  IF h = <<>> THEN due
        ELSE IF Head(h).reset THEN due + ShortTermDue(Tail(h), 0, sample_rate)
        ELSE ShortTermDue(Tail(h), n + 1, sample_rate)

\* C16: with range mode enabled the short-term frame counter never exceeds
\* 3 * sample_rate, the first short-term block is appended when exactly
\* 3 seconds of frames have been fed since construction or reset, and one
\* more after every further second.
C16_ShortTermCadence ==
    (state # NoState /\ Selects(state.mode, 11)) =>
        /\ state.short_term_frame_counter <= 3 * state.sample_rate
        /\ Len(state.short_term_block_list)
               = ShortTermDue(hist, 0, state.sample_rate)

\* C17: a gating block is stored, and counted, only if its loudness
\* 10 * log10(energy) - 0.691 is at least -70 LUFS (-70000 milli-LUFS), so
\* every stored block has loudness >= -70 LUFS.
C17_StoredBlocksAboveMinusSeventy ==
    state # NoState =>
        \A i \in 1..Len(state.block_list) :
            energy_to_loudness(state.block_list[i].energy) >= -70000

(***************************************************************************)
(* The relative gate as a function of the stored blocks.  gated_loudness   *)
(* reads nothing of the meter but block_list, so the meter is an           *)
(* integrated-mode one holding a drawn list of blocks: a run of equal      *)
(* blocks between two short stretches of arbitrary ones, each block above  *)
(* the absolute gate.                                                      *)
(***************************************************************************)
MaxBlocks == 11
EdgeBlocks == 2

BlockEnergies == {100, 1000, 8000}

\* The sequences of at most n block energies.
EdgeLists(n) == UNION {[1..k -> BlockEnergies] : k \in 0..n}

Run(e, k) == [i \in 1..k |-> e]

BlockLists ==
    {head \o Run(e, k) \o tail :
        head \in EdgeLists(EdgeBlocks), tail \in EdgeLists(EdgeBlocks),
        e \in BlockEnergies, k \in 1..(MaxBlocks - 2 * EdgeBlocks)}

InitGate ==
    /\ args = [channels |-> 1, sample_rate |-> 6, mode |-> EBUR128_MODE_I]
    /\ \E list \in BlockLists :
          state = [New(1, 6, EBUR128_MODE_I).state EXCEPT
                      !.block_list = [i \in 1..Len(list) |-> [energy |-> list[i]]],
                      !.block_counter = Len(list)]
    /\ ret = [op |-> "new", status |-> "ok", value |-> None]
    /\ hist = <<>>
    /\ measurement = NoMeasurement
    /\ info = NoInfo

NextGate == LoudnessGlobal \/ LoudnessSegment

SpecGate == InitGate /\ [][NextGate]_vars

\* The stored energies as a multiset: how many blocks have energy e.
Count(list, e) == Cardinality({i \in 1..Len(list) : list[i] = e})

\* The element of 0-based rank k in ascending order, from the multiset.
RankElement(list, k) ==
    CHOOSE e \in {list[i] : i \in 1..Len(list)} :
        /\ Cardinality({i \in 1..Len(list) : list[i] < e}) <= k
        /\ Cardinality({i \in 1..Len(list) : list[i] <= e}) > k

RECURSIVE WeightedSum(_, _)
WeightedSum(list, values) ==
    IF values = {} THEN 0
    ELSE LET e == CHOOSE x \in values : TRUE
         IN  e * Count(list, e) + WeightedSum(list, values \ {e})

\* The mean of the blocks at or above 0.15849 times the element of rank
\* floor(count * 0.9), from the multiset.
GatedMean(list) ==
    LET gate == MulFrac(RankElement(list, (Len(list) * 9) \div 10),
                        MINUS_EIGHT_NUM, MINUS_EIGHT_DEN)
        kept == {e \in {list[i] : i \in 1..Len(list)} : e >= gate}
        n == Cardinality({i \in 1..Len(list) : list[i] >= gate})
    IN  WeightedSum(list, kept) \div n

SmallestEnergy(list) ==
    CHOOSE e \in {list[i] : i \in 1..Len(list)} : \A i \in 1..Len(list) : e <= list[i]

LargestEnergy(list) ==
    CHOOSE e \in {list[i] : i \in 1..Len(list)} : \A i \in 1..Len(list) : e >= list[i]

BoxIntoRaw == 1

\* The files offered to nativeAnalyzeFile: whether the Java string can be
\* read, whether the file opens, the header check (analysis.rs 62-74), the
\* header's channels and sample_rate, and whether the data chunk has frames.
Files ==
    [path_ok : BOOLEAN, opens : BOOLEAN, header : {"valid", "invalid"},
     channels : {0, 1, 2}, sample_rate : {4, 6}, has_frames : BOOLEAN]

\* The loudness measured for the file; multiples of 0.5 dB, which are f32
\* values.
JniLoudness ==
    {None} \cup {Some(Finite(REFERENCE_LOUDNESS - d)) :
                    d \in {-80000000, -5000000, 0, 50000000, 120000000, 520000000}}

\* `lufs as f32` (processing.rs 319): exact on multiples of 0.5 dB of this
\* magnitude, rounded to 1e-7 dB otherwise out of this model's range.
LufsAsF32(lufs) ==
    IF lufs.kind = "finite" /\ lufs.e7 % 5000000 = 0 THEN lufs ELSE NaN

\* analyze_wav_file (analysis.rs 54-156): "err" with no value, "panic" for
\* the division by bytes_per_sample * channels = 0 (analysis.rs 87), "ok"
\* with the info.
analyze_wav_file(file, measured) ==
    IF file.header # "valid" THEN [status |-> "err", info |-> NoInfo]
    ELSE IF New(file.channels, file.sample_rate, EBUR128_MODE_I).status # "ok"
    THEN [status |-> "err", info |-> NoInfo]
    ELSE IF file.channels = 0 THEN [status |-> "panic", info |-> NoInfo]
    ELSE IF file.has_frames
            /\ add_frames_float(
                   New(file.channels, file.sample_rate, EBUR128_MODE_I).state,
                   [j \in 0..(file.channels - 1) |-> 0], 1).status # "ok"
    THEN [status |-> "err", info |-> NoInfo]
    ELSE [status |-> "ok",
          info |-> AudioLoudnessInfoNew(UnwrapOrMinusSeventy(measured))]

\* analyze_audio_file (analysis.rs 34-52)
analyze_audio_file(file, measured) ==
    IF ~file.opens THEN [status |-> "err", info |-> NoInfo]
    ELSE analyze_wav_file(file, measured)

\* The match on the analysis result (jni.rs 83-88): the handle returned and
\* the box made.
HandleFor(r) ==
    IF r.status = "ok"
    THEN [status |-> "ok", value |-> BoxIntoRaw, info |-> r.info]
    ELSE IF r.status = "err"
    THEN [status |-> "ok", value |-> 0, info |-> NoInfo]
    ELSE [status |-> "panic", value |-> 0, info |-> NoInfo]

\* nativeAnalyzeFile (jni.rs 70-89)
nativeAnalyzeFile(file, measured) ==
    IF ~file.path_ok THEN [status |-> "ok", value |-> -1, info |-> NoInfo]
    ELSE HandleFor(analyze_audio_file(file, measured))

\* nativeGetLufs (jni.rs 92-103)
nativeGetLufs(ptr, boxed, measured) ==
    IF ptr = 0 THEN Finite(MINUS_SEVENTY)
    ELSE LufsAsF32(UnwrapOrMinusSeventy(measured))

\* nativeGetTargetScale (jni.rs 106-117)
nativeGetTargetScale(ptr, boxed) ==
    IF ptr = 0 THEN ONE_F32 ELSE boxed.target_scale

\* nativeDestroy (jni.rs 120-128): the box left.
nativeDestroy(ptr, boxed) == IF ptr # 0 THEN NoInfo ELSE boxed

\* (input as f64 * scale) as f32 (jni.rs 150) for an input of 0.0 or 1.0.
ScaleSample(input, scale) ==
    IF input = ONE_F32 THEN scale
    ELSE IF scale \in {INFINITY_F32, NAN_F32} THEN NAN_F32
    ELSE ZERO_F32

\* nativeProcessAudio (jni.rs 131-155): the jboolean and the output buffer
\* after the call; a null buffer is None.
nativeProcessAudio(ptr, boxed, input_buffer, output_buffer, sample_count) ==
    IF ptr = 0 \/ input_buffer = None \/ output_buffer = None
    THEN [result |-> 0, output |-> output_buffer]
    ELSE [result |-> 1,
          output |-> Some([i \in 1..Len(Unwrap(output_buffer)) |->
                              IF i <= sample_count
                              THEN ScaleSample(Unwrap(input_buffer)[i],
                                               boxed.target_scale)
                              ELSE Unwrap(output_buffer)[i]])]

\* The handles the host passes: 0, and the address while the box lives.
Handles == {0} \cup (IF info # NoInfo THEN {BoxIntoRaw} ELSE {})

\* The buffers the host passes: null or two samples.
Buffers == {None} \cup {Some(b) : b \in [1..2 -> {ZERO_F32, ONE_F32}]}

InitJni ==
    /\ args \in Files
    /\ measurement \in JniLoudness
    /\ info = NoInfo
    /\ state = NoState
    /\ hist = <<>>
    /\ ret = [op |-> "init", status |-> "ok", value |-> None]

Returned == ret.op # "init" /\ ret.status = "ok"

NativeAnalyzeFile ==
    /\ ret.op = "init"
    /\ \E r \in {nativeAnalyzeFile(args, measurement)} :
          /\ info' = r.info
          /\ ret' = [op |-> "nativeAnalyzeFile", status |-> r.status, value |-> r.value]
    /\ UNCHANGED <<state, args, hist, measurement>>

NativeGetLufs ==
    /\ Returned
    /\ \E ptr \in Handles :
          /\ args' = [ptr |-> ptr]
          /\ ret' = [op |-> "nativeGetLufs", status |-> "ok",
                     value |-> nativeGetLufs(ptr, info, measurement)]
    /\ UNCHANGED <<state, hist, measurement, info>>

NativeGetTargetScale ==
    /\ Returned
    /\ \E ptr \in Handles :
          /\ args' = [ptr |-> ptr]
          /\ ret' = [op |-> "nativeGetTargetScale", status |-> "ok",
                     value |-> nativeGetTargetScale(ptr, info)]
    /\ UNCHANGED <<state, hist, measurement, info>>

NativeDestroy ==
    /\ Returned
    /\ \E ptr \in Handles :
          /\ args' = [ptr |-> ptr, boxed |-> info]
          /\ info' = nativeDestroy(ptr, info)
          /\ ret' = [op |-> "nativeDestroy", status |-> "ok", value |-> None]
    /\ UNCHANGED <<state, hist, measurement>>

NativeProcessAudio ==
    /\ Returned
    /\ \E ptr \in Handles, input_buffer \in Buffers, output_buffer \in Buffers,
          sample_count \in 0..2 :
          /\ args' = [ptr |-> ptr, input_buffer |-> input_buffer,
                      output_buffer |-> output_buffer, sample_count |-> sample_count]
          /\ ret' = [op |-> "nativeProcessAudio", status |-> "ok",
                     value |-> nativeProcessAudio(ptr, info, input_buffer,
                                                  output_buffer, sample_count)]
    /\ UNCHANGED <<state, hist, measurement, info>>

NextJni ==
    \/ NativeAnalyzeFile
    \/ NativeGetLufs
    \/ NativeGetTargetScale
    \/ NativeDestroy
    \/ NativeProcessAudio

SpecJni == InitJni /\ [][NextJni]_vars

\* C20: when the analysis of the file fails nativeAnalyzeFile returns
\* handle 0; with handle 0 the LUFS getter returns -70, the gain getter
\* returns 1.0, destroy leaves everything as it is, and the gain
\* application returns false and writes no output sample, as it does when
\* either buffer is null.
C20_UnityFallback ==
    /\ (ret.op = "nativeAnalyzeFile" /\ args.path_ok /\ info = NoInfo)
           => (ret.status = "ok" /\ ret.value = 0)
    /\ (ret.op = "nativeGetLufs" /\ args.ptr = 0)
           => ret.value = Finite(MINUS_SEVENTY)
    /\ (ret.op = "nativeGetTargetScale" /\ args.ptr = 0) => ret.value = ONE_F32
    /\ (ret.op = "nativeDestroy" /\ args.ptr = 0) => info = args.boxed
    /\ (ret.op = "nativeProcessAudio"
           /\ (args.ptr = 0 \/ args.input_buffer = None \/ args.output_buffer = None))
           => (ret.value.result = 0 /\ ret.value.output = args.output_buffer)

\* The history up to and including its last reset_segment(); empty when
\* there was none.
RECURSIVE UpToLastReset(_)
UpToLastReset(h) ==
    IF h = <<>> THEN <<>>
    ELSE IF h[Len(h)].reset THEN h
    ELSE UpToLastReset(SubSeq(h, 1, Len(h) - 1))

\* The momentary blocks the meter held when the current segment began.
BlocksAtSegmentStart ==
    Len(FeedOneByOne(FreshState, UpToLastReset(hist)).block_list)

\* C21: in every reachable state integrated_block_count is at most the
\* length of momentary_blocks and equals the number of blocks appended since
\* the most recent reset_segment() or, without one, since construction.
C21_CounterCountsSegmentBlocks ==
    state # NoState =>
        /\ state.block_counter <= Len(state.block_list)
        /\ state.block_counter = Len(state.block_list) - BlocksAtSegmentStart

\* A block was appended after a reset_segment() that found blocks stored,
\* and a query has run since.
C21_Witness ==
    /\ state # NoState
    /\ Resets(hist) > 0
    /\ BlocksAtSegmentStart > 0
    /\ state.block_counter > 0
    /\ ret.op \in {"loudness_global", "loudness_segment"}

\* C22: a feed call that returns an error leaves the meter exactly as it
\* was before the call: the ring buffer, write_index,
\* frames_until_next_block, the counters, the filter memory and the block
\* lists are unchanged.
C22_FailedFeedChangesNothing ==
    [][(ret'.op = "add_frames_float" /\ ret'.status = "err") => state' = state]_vars

\* The frames one iteration of the feed loop hands to filter_float
\* (processing.rs 56-58 and 88): needed_frames when that many remain, the
\* remaining frames otherwise.  They are the frames the iteration consumes.
IterationFrames(s, remaining_frames) ==
    IF remaining_frames >= s.needed_frames THEN s.needed_frames
    ELSE remaining_frames

\* The source buffers of a feed of `frames` silent frames: exact, one
\* sample short, one sample long.
SilentSources(s, frames) ==
    SrcVariants([j \in 0..(frames * s.channels - 1) |-> 0])

\* C23: every feed call terminates, for every sample_rate > 0 and frame
\* count: an iteration of the feed loop with frames remaining either
\* consumes at least one of them or returns an error, so the loop cannot
\* spin with frames_until_next_block = 0; the call ends with every frame
\* consumed or with an error (an out-of-bounds panic included).
C23_FeedTerminates ==
    (state # NoState /\ ret.status # "panic") =>
        \A frames \in 1..MaxChunk : \A src \in SilentSources(state, frames) :
            /\ \/ IterationFrames(state, frames) >= 1
               \/ filter_float(state, src, IterationFrames(state, frames)).status = "err"
            /\ \E r \in {add_frames_float(state, src, frames)} :
                  /\ r.status \in {"err", "panic"} \/ r.remaining_frames = 0
                  /\ r.remaining_frames <= frames
                  /\ r.status = "ok" => Len0(src) >= frames * state.channels

\* A feed was called on a meter whose frames_until_next_block is 0 and
\* returned an error.
C23_Witness ==
    /\ state # NoState
    /\ state.needed_frames = 0
    /\ ret.op = "add_frames_float"
    /\ ret.status = "err"
====
